---- MODULE Spec2Model ----
(***************************************************************************)
(* Model of codex-sdk/src/sdk.ts: the AsyncQueue callback-to-pull bridge,  *)
(* the stdout line framer, and the process lifecycle classification of     *)
(* run().  Text is a sequence of characters, stdout data a sequence of     *)
(* bytes; a parsed event is the JSON number its line denotes, or a         *)
(* negative code standing for the JSON string its line denotes.            *)
(***************************************************************************)
EXTENDS Integers, Sequences, FiniteSets, TLC

VARIABLES queue, runState, callerWaiting, delivered, thrown, sideThrown,
          buffer, child, exitInfo, killed, aborted, closePromise,
          chunksFed, handled, variant, processEnv, stream

vars == <<queue, runState, callerWaiting, delivered, thrown, sideThrown,
          buffer, child, exitInfo, killed, aborted, closePromise,
          chunksFed, handled, variant, processEnv, stream>>

\* which bridge is running, the environment it reads, and (for the framer
\* on its own) the text being fed
Env == <<variant, processEnv, stream>>

NoStream == [text |-> <<>>, rest |-> <<>>, received |-> <<>>,
             closed |-> FALSE]

\* ---------------------------------------------------------------- bounds
MaxChunks == 2
MaxChunkLen == 2
MaxCalls == 4
MaxText == 5

\* ------------------------------------------------------------------ text
NL == "\n"
Digits == {"1"}
Alphabet == {"1", "x", NL}
Whitespace == {" ", NL}

\* bytes of the two-byte UTF-8 encoding of one non-ASCII character, that
\* character, and the replacement character a broken encoding decodes to
Quote == "\""
LeadByte == "0xC3"
ContByte == "0xA9"
EAcute == "U+00E9"
Replacement == "U+FFFD"

RECURSIVE toString(_)
\* Buffer.prototype.toString(): UTF-8 decoding of one chunk on its own
toString(bytes) ==
  IF bytes = <<>> THEN <<>>
  ELSE IF Head(bytes) = LeadByte
  THEN IF Len(bytes) >= 2 /\ bytes[2] = ContByte
       THEN <<EAcute>> \o toString(SubSeq(bytes, 3, Len(bytes)))
       ELSE <<Replacement>> \o toString(Tail(bytes))
  ELSE IF Head(bytes) = ContByte
  THEN <<Replacement>> \o toString(Tail(bytes))
  ELSE <<Head(bytes)>> \o toString(Tail(bytes))

Last(s) == s[Len(s)]
Front(s) == SubSeq(s, 1, Len(s) - 1)

RECURSIVE SplitLines(_)
\* String.prototype.split("\n")
SplitLines(s) ==
  IF \A i \in 1..Len(s) : s[i] # NL
  THEN <<s>>
  ELSE LET i == CHOOSE k \in 1..Len(s) :
                  s[k] = NL /\ \A j \in 1..(k - 1) : s[j] # NL
       IN <<SubSeq(s, 1, i - 1)>> \o SplitLines(SubSeq(s, i + 1, Len(s)))

RECURSIVE TrimStart(_)
TrimStart(s) ==
  IF s # <<>> /\ Head(s) \in Whitespace THEN TrimStart(Tail(s)) ELSE s

RECURSIVE TrimEnd(_)
TrimEnd(s) ==
  IF s # <<>> /\ Last(s) \in Whitespace THEN TrimEnd(Front(s)) ELSE s

\* String.prototype.trim()
Trim(s) == TrimEnd(TrimStart(s))

DigitVal(c) == IF c = "1" THEN 1 ELSE 0

RECURSIVE NumVal(_)
NumVal(t) == IF t = <<>> THEN 0 ELSE 10 * NumVal(Front(t)) + DigitVal(Last(t))

CharCode(c) ==
  IF c = "1" THEN 1 ELSE IF c = " " THEN 2 ELSE IF c = "x" THEN 3
  ELSE IF c = EAcute THEN 4 ELSE 5

RECURSIVE StrCode(_)
\* a string value as a number: distinct strings get distinct codes
StrCode(t) == IF t = <<>> THEN 0 ELSE 6 * StrCode(Front(t)) + CharCode(Last(t))

\* JSON.parse restricted to the alphabet: optional whitespace around one
\* number literal or one string literal; anything else throws.  A string
\* value is represented by -1 - StrCode of its characters.
JSONParse(s) ==
  LET t == Trim(s)
  IN IF t # <<>> /\ \A i \in 1..Len(t) : t[i] \in Digits
     THEN [ok |-> TRUE, value |-> NumVal(t)]
     ELSE IF /\ Len(t) >= 2
             /\ t[1] = Quote
             /\ t[Len(t)] = Quote
             /\ \A i \in 2..(Len(t) - 1) : t[i] \notin {Quote, NL}
     THEN [ok |-> TRUE, value |-> -1 - StrCode(SubSeq(t, 2, Len(t) - 1))]
     ELSE [ok |-> FALSE, value |-> 0]

\* ---------------------------------------------------------------- errors
None == <<>>
Some(x) == <<x>>

CodeStr(code) ==
  IF code = None THEN "null"
  ELSE IF code[1] = 0 THEN "0"
  ELSE IF code[1] = 2 THEN "2"
  ELSE "-2"

AgentProcessError(text, arg, code) ==
  [name |-> "AgentProcessError", message |-> [text |-> text, arg |-> arg],
   code |-> code, cause |-> None]

AgentSpawnError(text, arg, cause) ==
  [name |-> "AgentSpawnError", message |-> [text |-> text, arg |-> arg],
   code |-> None, cause |-> cause]

UserAbortError(text) ==
  [name |-> "UserAbortError", message |-> [text |-> text, arg |-> ""],
   code |-> None, cause |-> None]

\* ------------------------------------------------------------ AsyncQueue
Item(v) == [t |-> "item", v |-> <<v>>]
ErrSlot(e) == [t |-> "error", v |-> <<e>>]
DONE == [t |-> "DONE", v |-> <<>>]

NewQueue ==
  [q |-> <<>>, pending |-> FALSE, iter |-> "ready",
   next |-> [done |-> FALSE, value |-> <<>>],
   immediates |-> <<>>, calls |-> <<>>]

Logged(Q, op, arg) ==
  [Q EXCEPT !.calls = Append(@, [op |-> op, arg |-> arg])]

\* pending(result): resolve the promise the iterator awaits
Resolve(Q, result) ==
  [Q EXCEPT !.pending = FALSE, !.iter = "woken", !.next = result]

pushFront(Q0, value) ==
  LET Q == Logged(Q0, "push", <<value>>)
  IN IF Q.pending
     THEN Resolve(Q, [done |-> FALSE, value |-> <<value>>])
     ELSE [Q EXCEPT !.q = <<Item(value)>> \o @]

pushKeepPending(Q0, value) ==
  LET Q == Logged(Q0, "push", <<value>>)
  IN IF Q.pending
     THEN [Resolve(Q, [done |-> FALSE, value |-> <<value>>])
             EXCEPT !.pending = TRUE]
     ELSE [Q EXCEPT !.q = Append(@, Item(value))]

pushHandOffAndBuffer(Q0, value) ==
  LET Q == Logged(Q0, "push", <<value>>)
  IN IF Q.pending
     THEN [Resolve(Q, [done |-> FALSE, value |-> <<value>>])
             EXCEPT !.q = Append(@, Item(value))]
     ELSE [Q EXCEPT !.q = Append(@, Item(value))]

push(Q0, value) ==
  LET Q == Logged(Q0, "push", <<value>>)
  IN IF Q.pending
     THEN Resolve(Q, [done |-> FALSE, value |-> <<value>>])
     ELSE [Q EXCEPT !.q = Append(@, Item(value))]

errorFront(Q0, err) ==
  LET Q == Logged(Q0, "error", <<err>>)
  IN [Q EXCEPT !.q = <<ErrSlot(err)>> \o @]

errorNoImmediate(Q0, err) ==
  LET Q == Logged(Q0, "error", <<err>>)
  IN IF Q.pending
     THEN Resolve(Q, [done |-> TRUE, value |-> <<>>])
     ELSE [Q EXCEPT !.q = Append(@, ErrSlot(err))]

error(Q0, err) ==
  LET Q == Logged(Q0, "error", <<err>>)
  IN IF Q.pending
     THEN Resolve([Q EXCEPT !.immediates = Append(@, err)],
                  [done |-> TRUE, value |-> <<>>])
     ELSE [Q EXCEPT !.q = Append(@, ErrSlot(err))]

endNoSentinel(Q0) ==
  LET Q == Logged(Q0, "end", <<>>)
  IN IF Q.pending
     THEN Resolve(Q, [done |-> TRUE, value |-> <<>>])
     ELSE Q

end(Q0) ==
  LET Q == Logged(Q0, "end", <<>>)
  IN IF Q.pending
     THEN Resolve(Q, [done |-> TRUE, value |-> <<>>])
     ELSE [Q EXCEPT !.q = Append(@, DONE)]

\* One resumption of iterator() from the loop top (first next(), or a
\* next() after a yield).  Returns the queue and what the pull produced.
IteratorNext(Q) ==
  IF Q.q = <<>>
  THEN [queue |-> [Q EXCEPT !.pending = TRUE, !.iter = "awaiting"],
        kind |-> "blocked", value |-> <<>>]
  ELSE LET item == Head(Q.q)
           Q1 == [Q EXCEPT !.q = Tail(@)]
       IN IF item.t = "DONE"
          THEN [queue |-> [Q1 EXCEPT !.iter = "finished"],
                kind |-> "return", value |-> <<>>]
          ELSE IF item.t = "error"
          THEN [queue |-> [Q1 EXCEPT !.iter = "finished"],
                kind |-> "throw", value |-> item.v]
          ELSE [queue |-> Q1, kind |-> "yield", value |-> item.v]

\* The continuation of `await new Promise(...)` once pending was resolved.
IteratorResume(Q) ==
  IF Q.next.done
  THEN [queue |-> [Q EXCEPT !.iter = "finished"],
        kind |-> "return", value |-> <<>>]
  ELSE [queue |-> [Q EXCEPT !.iter = "ready"],
        kind |-> "yield", value |-> Q.next.value]

\* --------------------------------------------------------- run(): framer
RECURSIVE PushLinesStopOnBad(_, _)
PushLinesStopOnBad(Q, lines) ==
  IF lines = <<>> THEN Q
  ELSE LET line == Head(lines)
           r == JSONParse(line)
       IN IF Trim(line) = <<>> THEN PushLinesStopOnBad(Q, Tail(lines))
          ELSE IF r.ok THEN PushLinesStopOnBad(push(Q, r.value), Tail(lines))
          ELSE Q

RECURSIVE PushLines(_, _)
\* for (const line of lines) { if (!line.trim()) continue; try { push } }
PushLines(Q, lines) ==
  IF lines = <<>> THEN Q
  ELSE LET line == Head(lines)
           r == JSONParse(line)
       IN IF Trim(line) = <<>> THEN PushLines(Q, Tail(lines))
          ELSE IF r.ok THEN PushLines(push(Q, r.value), Tail(lines))
          ELSE PushLines(Q, Tail(lines))

\* child.stdout.on("data"): the queue and the buffer after one chunk
stdoutData(Q, buf, data) ==
  LET lines == SplitLines(buf \o toString(data))
  IN [queue |-> PushLines(Q, Front(lines)), buffer |-> Last(lines)]

\* cleanup(): one parse attempt of the trailing fragment; buffer is kept
cleanup(Q, buf) ==
  IF Trim(buf) # <<>> /\ JSONParse(buf).ok
  THEN push(Q, JSONParse(buf).value)
  ELSE Q

\* ------------------------------------------------ run(): classification
Signals == {"SIGTERM", "SIGKILL", "SIGINT"}
ExitCodes == {0, 2}
ErrorNames == {"AbortError", "Error"}

Resolved == [kind |-> "resolve", err |-> None]
Rejected(e) == [kind |-> "reject", err |-> Some(e)]

closeOutcomeNoAbortCheck(code, signal, isAborted) ==
  IF signal = Some("SIGTERM") \/ signal = Some("SIGKILL")
  THEN Rejected(AgentProcessError("Codex was terminated with signal ",
                                  signal[1], code))
  ELSE IF code = Some(0) THEN Resolved
  ELSE Rejected(AgentProcessError("Codex exited with code ",
                                  CodeStr(code), code))

closeOutcomeNoZero(code, signal, isAborted) ==
  IF signal = Some("SIGTERM") \/ signal = Some("SIGKILL")
  THEN IF isAborted
       THEN Rejected(UserAbortError("Codex was aborted by user"))
       ELSE Rejected(AgentProcessError("Codex was terminated with signal ",
                                       signal[1], code))
  ELSE Rejected(AgentProcessError("Codex exited with code ",
                                  CodeStr(code), code))

\* child.on("close", (code, signal) => ...) after cleanup()
closeOutcome(code, signal, isAborted) ==
  IF signal = Some("SIGTERM") \/ signal = Some("SIGKILL")
  THEN IF isAborted
       THEN Rejected(UserAbortError("Codex was aborted by user"))
       ELSE Rejected(AgentProcessError("Codex was terminated with signal ",
                                       signal[1], code))
  ELSE IF code = Some(0) THEN Resolved
  ELSE Rejected(AgentProcessError("Codex exited with code ",
                                  CodeStr(code), code))

errorOutcomeByFlag(errName, isAborted) ==
  IF isAborted
  THEN Rejected(UserAbortError("Codex was aborted by user"))
  ELSE Rejected(AgentSpawnError("failed to run Codex: ", errName,
                                Some(errName)))

\* child.on("error", (error) => ...) after cleanup()
errorOutcome(errName, isAborted) ==
  IF errName = "AbortError"
  THEN IF isAborted
       THEN Rejected(UserAbortError("Codex was aborted by user"))
       ELSE Rejected(UserAbortError("Codex was aborted"))
  ELSE Rejected(AgentSpawnError("failed to run Codex: ", errName,
                                Some(errName)))

\* ------------------------------------------------------ run(): promises
PendingPromise == [state |-> "pending", err |-> None]

\* resolve()/reject() of closePromise: only the first call settles it
Settle(p, outcome) ==
  IF p.state # "pending" THEN p
  ELSE IF outcome.kind = "resolve"
  THEN [state |-> "resolved", err |-> None]
  ELSE [state |-> "rejected", err |-> outcome.err]

forwardRethrows(cp) == cp

\* forward = (async () => { await closePromise; queue.end() })().catch(...)
\* as a promise: the catch handler returns normally, so it never rejects.
forward(cp) ==
  IF cp.state = "pending" THEN PendingPromise
  ELSE [state |-> "resolved", err |-> None]

forwardReactionNoEnd(Q, cp) ==
  IF cp.state = "resolved" THEN Q
  ELSE end(error(Q, cp.err[1]))

\* The reactions of forward to the settlement of closePromise.
forwardReaction(Q, cp) ==
  IF cp.state = "resolved" THEN end(Q)
  ELSE end(error(Q, cp.err[1]))

LifecycleReactAlways(Q, cp, buf, outcome) ==
  LET Q1 == cleanup(Q, buf)
      cp1 == Settle(cp, outcome)
  IN [queue |-> forwardReaction(Q1, cp1),
      closePromise |-> cp1]

\* A lifecycle handler: cleanup(), then its resolve/reject, then (in the
\* microtasks that follow, before any other callback) forward's reaction
\* if this call settled closePromise.
Lifecycle(Q, cp, buf, outcome) ==
  LET Q1 == cleanup(Q, buf)
      cp1 == Settle(cp, outcome)
  IN [queue |-> IF cp.state = "pending" THEN forwardReaction(Q1, cp1)
                ELSE Q1,
      closePromise |-> cp1]

\* ------------------------------------------------------------ run(): state
Chunks ==
  UNION { [1..n -> Alphabet] : n \in 1..MaxChunkLen }

Init ==
  /\ queue = NewQueue
  /\ runState = "fresh"
  /\ callerWaiting = FALSE
  /\ delivered = <<>>
  /\ thrown = <<>>
  /\ sideThrown = <<>>
  /\ buffer = <<>>
  /\ child = "unspawned"
  /\ exitInfo = [code |-> None, signal |-> None]
  /\ killed = FALSE
  /\ aborted = FALSE
  /\ closePromise = PendingPromise
  /\ chunksFed = 0
  /\ handled = <<>>
  /\ variant = "run"
  /\ processEnv = [OPENAI_API_KEY |-> TRUE]
  /\ stream = NoStream

Event(ev, code, signal, name, flag, outcome) ==
  [ev |-> ev, code |-> code, signal |-> signal, name |-> name,
   aborted |-> flag, outcome |-> outcome,
   settles |-> closePromise.state = "pending",
   wasPending |-> queue.pending,
   flushed |-> cleanup(queue, buffer) # queue,
   terminated |-> \E k \in 1..Len(queue.calls) :
                    queue.calls[k].op \in {"error", "end"},
   chunks |-> chunksFed]

\* What one resumption of the queue iterator means for run()'s caller:
\* `for await (const msg of queue) yield msg; await forward`.
RunDeliver(r) ==
  /\ queue' = r.queue
  /\ IF r.kind = "blocked"
     THEN /\ callerWaiting' = TRUE
          /\ UNCHANGED <<runState, delivered, thrown>>
     ELSE IF r.kind = "yield"
     THEN /\ callerWaiting' = FALSE
          /\ delivered' = Append(delivered, r.value[1])
          /\ UNCHANGED <<runState, thrown>>
     ELSE IF r.kind = "throw"
     THEN /\ callerWaiting' = FALSE
          /\ runState' = "threw"
          /\ thrown' = Append(thrown, r.value[1])
          /\ UNCHANGED delivered
     ELSE LET f == forward(closePromise)
          IN /\ callerWaiting' = FALSE
             /\ runState' = IF f.state = "rejected" THEN "threw" ELSE "done"
             /\ thrown' = IF f.state = "rejected"
                          THEN Append(thrown, f.err[1]) ELSE thrown
             /\ UNCHANGED delivered

\* The first next(): the body runs to the first await of the queue
\* iterator: spawn, listeners, closePromise, forward, then the iterator
\* blocks on the empty queue.  With an already-aborted signal spawn()
\* schedules the abort on the next tick, ahead of every I/O callback.
Start ==
  /\ runState = "fresh"
  /\ \E spawned \in {"alive", "nospawn"} :
       LET Q1 == IteratorNext(queue).queue
           out == errorOutcome("AbortError", aborted)
           L == Lifecycle(Q1, closePromise, buffer, out)
       IN /\ child' = spawned
          /\ IF aborted /\ spawned = "alive"
             THEN /\ queue' = L.queue
                  /\ closePromise' = L.closePromise
                  /\ killed' = TRUE
                  /\ handled' = Append(handled,
                        [Event("error", None, None, "AbortError", aborted, out)
                           EXCEPT !.wasPending = TRUE])
             ELSE /\ queue' = Q1
                  /\ UNCHANGED <<closePromise, killed, handled>>
  /\ runState' = "iterating"
  /\ callerWaiting' = TRUE
  /\ UNCHANGED <<delivered, thrown, sideThrown, buffer, exitInfo, aborted,
                 chunksFed>>
  /\ UNCHANGED Env

\* A later next() by the caller.
Pull ==
  /\ runState = "iterating"
  /\ ~callerWaiting
  /\ queue.iter = "ready"
  /\ RunDeliver(IteratorNext(queue))
  /\ UNCHANGED <<sideThrown, buffer, child, exitInfo, killed, aborted,
                 closePromise, chunksFed, handled>>
  /\ UNCHANGED Env

\* The blocked iterator continues after pending was resolved.
Wake ==
  /\ runState = "iterating"
  /\ queue.iter = "woken"
  /\ RunDeliver(IteratorResume(queue))
  /\ UNCHANGED <<sideThrown, buffer, child, exitInfo, killed, aborted,
                 closePromise, chunksFed, handled>>
  /\ UNCHANGED Env

\* child.stdout "data"
Data ==
  /\ child \in {"alive", "exited"}
  /\ chunksFed < MaxChunks
  /\ queue.iter # "woken"
  /\ \E data \in Chunks :
       LET r == stdoutData(queue, buffer, data)
       IN /\ queue' = r.queue
          /\ buffer' = r.buffer
  /\ chunksFed' = chunksFed + 1
  /\ UNCHANGED <<runState, callerWaiting, delivered, thrown, sideThrown,
                 child, exitInfo, killed, aborted, closePromise, handled>>
  /\ UNCHANGED Env

\* The process terminates; run() has no "exit" listener, so only the
\* report that "close" will carry is fixed here.
Exit ==
  /\ child = "alive"
  /\ child' = "exited"
  /\ \/ \E c \in ExitCodes : exitInfo' = [code |-> Some(c), signal |-> None]
     \/ \E sg \in Signals : exitInfo' = [code |-> None, signal |-> Some(sg)]
  /\ UNCHANGED <<queue, runState, callerWaiting, delivered, thrown,
                 sideThrown, buffer, killed, aborted, closePromise,
                 chunksFed, handled>>
  /\ UNCHANGED Env

\* child "close"
Close ==
  /\ child \in {"exited", "failed"}
  /\ queue.iter # "woken"
  /\ LET out == closeOutcome(exitInfo.code, exitInfo.signal, aborted)
         L == Lifecycle(queue, closePromise, buffer, out)
     IN /\ queue' = L.queue
        /\ closePromise' = L.closePromise
        /\ handled' = Append(handled,
              Event("close", exitInfo.code, exitInfo.signal, "", aborted,
                    out))
  /\ child' = "closed"
  /\ UNCHANGED <<runState, callerWaiting, delivered, thrown, sideThrown,
                 buffer, exitInfo, killed, aborted, chunksFed>>
  /\ UNCHANGED Env

\* child "error" because the process could not be started
SpawnError ==
  /\ child = "nospawn"
  /\ queue.iter # "woken"
  /\ LET out == errorOutcome("Error", aborted)
         L == Lifecycle(queue, closePromise, buffer, out)
     IN /\ queue' = L.queue
        /\ closePromise' = L.closePromise
        /\ handled' = Append(handled,
              Event("error", None, None, "Error", aborted, out))
  /\ child' = "failed"
  /\ exitInfo' = [code |-> Some(-2), signal |-> None]   \* -ENOENT
  /\ UNCHANGED <<runState, callerWaiting, delivered, thrown, sideThrown,
                 buffer, killed, aborted, chunksFed>>
  /\ UNCHANGED Env

\* abortController.abort(): sets the flag; a live child is killed and
\* emits "error" with an AbortError synchronously.
Abort ==
  /\ runState # "harness"
  /\ ~aborted
  /\ aborted' = TRUE
  /\ IF child = "alive"
     THEN LET out == errorOutcome("AbortError", TRUE)
              L == Lifecycle(queue, closePromise, buffer, out)
          IN /\ queue' = L.queue
             /\ closePromise' = L.closePromise
             /\ killed' = TRUE
             /\ handled' = Append(handled,
                   Event("error", None, None, "AbortError", TRUE, out))
     ELSE UNCHANGED <<queue, closePromise, killed, handled>>
  /\ UNCHANGED <<runState, callerWaiting, delivered, thrown, sideThrown,
                 buffer, child, exitInfo, chunksFed>>
  /\ UNCHANGED Env

\* A callback scheduled by setImmediate in AsyncQueue.error runs and throws.
ImmediateFire ==
  /\ queue.immediates # <<>>
  /\ queue.iter # "woken"
  /\ sideThrown' = Append(sideThrown, Head(queue.immediates))
  /\ queue' = [queue EXCEPT !.immediates = Tail(@)]
  /\ UNCHANGED <<runState, callerWaiting, delivered, thrown, buffer, child,
                 exitInfo, killed, aborted, closePromise, chunksFed, handled>>
  /\ UNCHANGED Env

Next ==
  \/ Start
  \/ Pull
  \/ Wake
  \/ Data
  \/ Exit
  \/ Close
  \/ SpawnError
  \/ Abort
  \/ ImmediateFire

Spec == Init /\ [][Next]_vars

\* run() with a caller that keeps pulling: every next() it can issue is
\* issued, and the continuation of a resolved await always runs.
FairSpec == Spec /\ WF_vars(Pull) /\ WF_vars(Wake)

\* ------------------------------------- run(): a consumer that stops
\* The caller leaves its loop after a received event (break, or return()
\* on the generator): run() is suspended at `yield msg`, the for await
\* closes the queue iterator, and the finally block does nothing.
AbandonKills ==
  /\ runState = "iterating"
  /\ ~callerWaiting
  /\ queue.iter = "ready"
  /\ delivered # <<>>
  /\ runState' = "abandoned"
  /\ queue' = [queue EXCEPT !.iter = "finished"]
  /\ killed' = TRUE
  /\ child' = IF child = "alive" THEN "exited" ELSE child
  /\ exitInfo' = IF child = "alive"
                 THEN [code |-> None, signal |-> Some("SIGTERM")]
                 ELSE exitInfo
  /\ UNCHANGED <<callerWaiting, delivered, thrown, sideThrown, buffer,
                 aborted, closePromise, chunksFed, handled>>
  /\ UNCHANGED Env

Abandon ==
  /\ runState = "iterating"
  /\ ~callerWaiting
  /\ queue.iter = "ready"
  /\ delivered # <<>>
  /\ runState' = "abandoned"
  /\ queue' = [queue EXCEPT !.iter = "finished"]
  /\ UNCHANGED <<callerWaiting, delivered, thrown, sideThrown, buffer,
                 child, exitInfo, killed, aborted, closePromise, chunksFed,
                 handled>>
  /\ UNCHANGED Env

AbandonNext ==
  \/ Start
  \/ Pull
  \/ Wake
  \/ Abandon
  \/ Data
  \/ Exit
  \/ Close
  \/ SpawnError
  \/ Abort
  \/ ImmediateFire

AbandonSpec == Init /\ [][AbandonNext]_vars

\* ------------------------------------------- query(): bundled binary
\* query() has the queue, the framer, cleanup(), forward and the consuming
\* loop of run(); it differs in what precedes spawn() and in what its
\* "close" and "error" handlers reject closePromise with.

\* `class AbortError extends Error {}`: name holds the class of the error
AbortError(text) ==
  [name |-> "AbortError", message |-> [text |-> text, arg |-> ""],
   code |-> None, cause |-> None]

PlainError(text, arg) ==
  [name |-> "Error", message |-> [text |-> text, arg |-> arg],
   code |-> None, cause |-> None]

queryCloseOutcomeTruthy(code, isAborted) ==
  IF isAborted
  THEN Rejected(AbortError("Codex process aborted by user"))
  ELSE IF code # None /\ code # Some(0)
  THEN Rejected(PlainError("Codex process exited with code ", CodeStr(code)))
  ELSE Resolved

\* child.on("close", (code) => ...) after cleanup(); the reject that
\* follows the aborted branch finds closePromise settled
queryCloseOutcome(code, isAborted) ==
  IF isAborted
  THEN Rejected(AbortError("Codex process aborted by user"))
  ELSE IF code # Some(0)
  THEN Rejected(PlainError("Codex process exited with code ", CodeStr(code)))
  ELSE Resolved

\* child.on("error", (error) => ...) after cleanup()
queryErrorOutcome(message, isAborted) ==
  IF isAborted
  THEN Rejected(AbortError("Codex process aborted by user"))
  ELSE Rejected(PlainError("Codex process exited with error: ", message))

QueryInit ==
  /\ queue = NewQueue
  /\ runState = "fresh"
  /\ callerWaiting = FALSE
  /\ delivered = <<>>
  /\ thrown = <<>>
  /\ sideThrown = <<>>
  /\ buffer = <<>>
  /\ child = "unspawned"
  /\ exitInfo = [code |-> None, signal |-> None]
  /\ killed = FALSE
  /\ aborted = FALSE
  /\ closePromise = PendingPromise
  /\ chunksFed = 0
  /\ handled = <<>>
  /\ variant = "query"
  /\ processEnv \in [OPENAI_API_KEY : BOOLEAN]
  /\ stream = NoStream

\* The first next(): args, resolveCodexBinary(), ensureExecutable(cmd),
\* which throws when the binary cannot be made executable, then spawn with
\* env: process.env and the rest of the body as in run().
QueryStart ==
  /\ runState = "fresh"
  /\ \/ /\ runState' = "threw"
        /\ thrown' = Append(thrown,
              PlainError("Codex binary not executable: ", "cmd"))
        /\ UNCHANGED <<queue, callerWaiting, child, closePromise, killed,
                       handled>>
     \/ /\ \E spawned \in {"alive", "nospawn"} :
             LET Q1 == IteratorNext(queue).queue
                 out == queryErrorOutcome("The operation was aborted", aborted)
                 L == Lifecycle(Q1, closePromise, buffer, out)
             IN /\ child' = spawned
                /\ IF aborted /\ spawned = "alive"
                   THEN /\ queue' = L.queue
                        /\ closePromise' = L.closePromise
                        /\ killed' = TRUE
                        /\ handled' = Append(handled,
                              [Event("error", None, None, "AbortError",
                                     aborted, out)
                                 EXCEPT !.wasPending = TRUE])
                   ELSE /\ queue' = Q1
                        /\ UNCHANGED <<closePromise, killed, handled>>
        /\ runState' = "iterating"
        /\ callerWaiting' = TRUE
        /\ UNCHANGED thrown
  /\ UNCHANGED <<delivered, sideThrown, buffer, exitInfo, aborted, chunksFed>>
  /\ UNCHANGED Env

\* child "close"
QueryClose ==
  /\ child \in {"exited", "failed"}
  /\ queue.iter # "woken"
  /\ LET out == queryCloseOutcome(exitInfo.code, aborted)
         L == Lifecycle(queue, closePromise, buffer, out)
     IN /\ queue' = L.queue
        /\ closePromise' = L.closePromise
        /\ handled' = Append(handled,
              Event("close", exitInfo.code, exitInfo.signal, "", aborted,
                    out))
  /\ child' = "closed"
  /\ UNCHANGED <<runState, callerWaiting, delivered, thrown, sideThrown,
                 buffer, exitInfo, killed, aborted, chunksFed>>
  /\ UNCHANGED Env

\* child "error" because the process could not be started
QuerySpawnError ==
  /\ child = "nospawn"
  /\ queue.iter # "woken"
  /\ LET out == queryErrorOutcome("spawn ENOENT", aborted)
         L == Lifecycle(queue, closePromise, buffer, out)
     IN /\ queue' = L.queue
        /\ closePromise' = L.closePromise
        /\ handled' = Append(handled,
              Event("error", None, None, "Error", aborted, out))
  /\ child' = "failed"
  /\ exitInfo' = [code |-> Some(-2), signal |-> None]   \* -ENOENT
  /\ UNCHANGED <<runState, callerWaiting, delivered, thrown, sideThrown,
                 buffer, killed, aborted, chunksFed>>
  /\ UNCHANGED Env

\* abortController.abort(): sets the flag; a live child is killed and
\* emits "error" with an AbortError synchronously.
QueryAbort ==
  /\ ~aborted
  /\ aborted' = TRUE
  /\ IF child = "alive"
     THEN LET out == queryErrorOutcome("The operation was aborted", TRUE)
              L == Lifecycle(queue, closePromise, buffer, out)
          IN /\ queue' = L.queue
             /\ closePromise' = L.closePromise
             /\ killed' = TRUE
             /\ handled' = Append(handled,
                   Event("error", None, None, "AbortError", TRUE, out))
     ELSE UNCHANGED <<queue, closePromise, killed, handled>>
  /\ UNCHANGED <<runState, callerWaiting, delivered, thrown, sideThrown,
                 buffer, child, exitInfo, chunksFed>>
  /\ UNCHANGED Env

QueryNext ==
  \/ QueryStart
  \/ Pull
  \/ Wake
  \/ Data
  \/ Exit
  \/ QueryClose
  \/ QuerySpawnError
  \/ QueryAbort
  \/ ImmediateFire

QuerySpec == QueryInit /\ [][QueryNext]_vars

\* --------------------------------------------- AsyncQueue on its own
\* A producer calling push/error/end in any order and one consumer
\* iterating the queue directly (for await (const x of queue)).
QValues == {1, 11}
QErrors == {AgentProcessError("Codex exited with code ", "2", Some(2)),
            UserAbortError("Codex was aborted by user")}

QInit ==
  /\ queue = NewQueue
  /\ runState = "harness"
  /\ callerWaiting = FALSE
  /\ delivered = <<>>
  /\ thrown = <<>>
  /\ sideThrown = <<>>
  /\ buffer = <<>>
  /\ child = "unspawned"
  /\ exitInfo = [code |-> None, signal |-> None]
  /\ killed = FALSE
  /\ aborted = FALSE
  /\ closePromise = PendingPromise
  /\ chunksFed = 0
  /\ handled = <<>>
  /\ variant = "run"
  /\ processEnv = [OPENAI_API_KEY |-> TRUE]
  /\ stream = NoStream

QDeliver(r) ==
  /\ queue' = r.queue
  /\ callerWaiting' = (r.kind = "blocked")
  /\ delivered' = IF r.kind = "yield" THEN Append(delivered, r.value[1])
                  ELSE delivered
  /\ thrown' = IF r.kind = "throw" THEN Append(thrown, r.value[1])
               ELSE thrown

QRest == <<runState, sideThrown, buffer, child, exitInfo, killed, aborted,
           closePromise, chunksFed, handled, Env>>

QConsumer == <<callerWaiting, delivered, thrown>>

QPush ==
  /\ runState = "harness"
  /\ Len(queue.calls) < MaxCalls
  /\ \E v \in QValues : queue' = push(queue, v)
  /\ UNCHANGED <<QConsumer, QRest>>

QError ==
  /\ runState = "harness"
  /\ Len(queue.calls) < MaxCalls
  /\ \E e \in QErrors : queue' = error(queue, e)
  /\ UNCHANGED <<QConsumer, QRest>>

QEnd ==
  /\ runState = "harness"
  /\ Len(queue.calls) < MaxCalls
  /\ queue' = end(queue)
  /\ UNCHANGED <<QConsumer, QRest>>

QPull ==
  /\ runState = "harness"
  /\ ~callerWaiting
  /\ queue.iter = "ready"
  /\ QDeliver(IteratorNext(queue))
  /\ UNCHANGED QRest

QWake ==
  /\ runState = "harness"
  /\ queue.iter = "woken"
  /\ QDeliver(IteratorResume(queue))
  /\ UNCHANGED QRest

QNext ==
  \/ QPush
  \/ QError
  \/ QEnd
  \/ QPull
  \/ QWake
  \/ ImmediateFire

QueueSpec == QInit /\ [][QNext]_vars

\* --------------------------------------------- the line framer on its own
\* A text is cut into chunks in every possible way, the chunks are fed to
\* the stdout data handler in order, then the stream closes and cleanup()
\* flushes the trailing fragment.  Nobody consumes the queue.
FramerBytes == {"1", " ", NL, Quote, LeadByte, ContByte}

Texts ==
  UNION { [1..n -> FramerBytes] : n \in 0..MaxText }

FInit ==
  /\ queue = NewQueue
  /\ runState = "framer"
  /\ callerWaiting = FALSE
  /\ delivered = <<>>
  /\ thrown = <<>>
  /\ sideThrown = <<>>
  /\ buffer = <<>>
  /\ child = "unspawned"
  /\ exitInfo = [code |-> None, signal |-> None]
  /\ killed = FALSE
  /\ aborted = FALSE
  /\ closePromise = PendingPromise
  /\ chunksFed = 0
  /\ handled = <<>>
  /\ variant = "run"
  /\ processEnv = [OPENAI_API_KEY |-> TRUE]
  /\ \E t \in Texts : stream = [NoStream EXCEPT !.text = t, !.rest = t]

FRest == <<runState, callerWaiting, delivered, thrown, sideThrown, child,
           exitInfo, killed, aborted, closePromise, handled, variant,
           processEnv>>

\* one "data" callback carrying the next k characters of the text
FFeed ==
  /\ runState = "framer"
  /\ stream.rest # <<>>
  /\ \E k \in 1..Len(stream.rest) :
       LET r == stdoutData(queue, buffer, SubSeq(stream.rest, 1, k))
       IN /\ queue' = r.queue
          /\ buffer' = r.buffer
          /\ stream' = [stream EXCEPT
                          !.rest = SubSeq(@, k + 1, Len(@)),
                          !.received = @ \o toString(SubSeq(stream.rest, 1, k))]
  /\ chunksFed' = chunksFed + 1
  /\ UNCHANGED FRest

\* the stream ends: cleanup() in the close handler
FClose ==
  /\ runState = "framer"
  /\ stream.rest = <<>>
  /\ ~stream.closed
  /\ queue' = cleanup(queue, buffer)
  /\ stream' = [stream EXCEPT !.closed = TRUE]
  /\ UNCHANGED <<buffer, chunksFed, FRest>>

FNext ==
  \/ FFeed
  \/ FClose

FramerSpec == FInit /\ [][FNext]_vars

\* ------------------------------------------------------------ properties
RECURSIVE Pushes(_)
\* the values of the push calls of a call log, in call order
Pushes(calls) ==
  IF calls = <<>> THEN <<>>
  ELSE IF Head(calls).op = "push"
  THEN <<Head(calls).arg[1]>> \o Pushes(Tail(calls))
  ELSE Pushes(Tail(calls))

IsPrefix(s, t) == Len(s) <= Len(t) /\ SubSeq(t, 1, Len(s)) = s

\* index of the first call of the log that is one of ops (Len + 1 if none)
FirstCall(calls, ops) ==
  IF \E k \in 1..Len(calls) : calls[k].op \in ops
  THEN CHOOSE k \in 1..Len(calls) :
         calls[k].op \in ops /\ \A j \in 1..(k - 1) : calls[j].op \notin ops
  ELSE Len(calls) + 1

PushedBefore(calls, ops) == Pushes(SubSeq(calls, 1, FirstCall(calls, ops) - 1))

RunOver == runState \in {"done", "threw"}

Surfaced == thrown \o sideThrown \o queue.immediates

\* C1: when the child closes with a non-zero exit code c and no signal
\* (and no "error" event came first), a caller that has pulled to the end
\* has received every event pushed before the exit and then got exactly one
\* AgentProcessError carrying c thrown from its pull.
C1_NonZeroExitThrownFromPull ==
  \A i \in 1..Len(handled) :
    ( /\ handled[i].ev = "close"
      /\ handled[i].settles
      /\ handled[i].signal = None
      /\ handled[i].code # None
      /\ handled[i].code # Some(0)
      /\ RunOver )
    => /\ delivered = PushedBefore(queue.calls, {"error"})
       /\ Len(thrown) = 1
       /\ thrown[1].name = "AgentProcessError"
       /\ thrown[1].code = handled[i].code

\* C2: error(e) then end(), or end() then error(e), after pushes only: a
\* consumer that has finished received exactly the pushed items in order
\* and got exactly one error, e, thrown from its iteration.
C2_ErrorEndThrowsOnce ==
  \A k \in 1..(Len(queue.calls) - 1) :
    LET c == queue.calls
    IN ( /\ \A j \in 1..(k - 1) : c[j].op = "push"
         /\ {c[k].op, c[k + 1].op} = {"error", "end"}
         /\ queue.iter = "finished" )
       => /\ delivered = Pushes(SubSeq(c, 1, k - 1))
          /\ thrown = IF c[k].op = "error" THEN c[k].arg ELSE c[k + 1].arg

\* C3: pushes P1..Pn followed by end(): under every interleaving with the
\* pulls of one consumer, what the consumer has received is a prefix of
\* P1..Pn, nothing is thrown, and once it has finished it has received
\* exactly P1..Pn.
C3_PushesThenEnd ==
  LET c == queue.calls
      k == FirstCall(c, {"error", "end"})
      P == Pushes(SubSeq(c, 1, k - 1))
  IN (k > Len(c) \/ c[k].op = "end")
     => /\ IsPrefix(delivered, P)
        /\ thrown = <<>>
        /\ sideThrown = <<>>
        /\ queue.iter = "finished" => (k <= Len(c) /\ delivered = P)

C3_Witness ==
  /\ queue.iter = "finished"
  /\ Len(queue.calls) = 3
  /\ queue.calls[3].op = "end"
  /\ delivered = <<1, 11>>

\* C4: once the child has closed and the caller has pulled to the end, the
\* caller has received every event that was parsed and pushed, once each
\* and in order.
C4_NoEventLost ==
  (child = "closed" /\ RunOver) => delivered = Pushes(queue.calls)

\* C5: a close reporting SIGTERM or SIGKILL, handled while the abort flag
\* is set, is classified UserAbortError, and the failure of the invocation
\* is a UserAbortError on every channel.
C5_AbortedSignalIsUserAbort ==
  \A i \in 1..Len(handled) :
    ( /\ handled[i].ev = "close"
      /\ handled[i].signal \in {Some("SIGTERM"), Some("SIGKILL")}
      /\ handled[i].aborted )
    => /\ handled[i].outcome.kind = "reject"
       /\ handled[i].outcome.err[1].name = "UserAbortError"
       /\ closePromise.state = "rejected"
       /\ closePromise.err[1].name = "UserAbortError"
       /\ \A j \in 1..Len(Surfaced) : Surfaced[j].name = "UserAbortError"

\* the flag was set after the process was signalled (no kill by abort),
\* the close handler itself classified, and the failure reached the caller
C5_Witness ==
  /\ ~killed
  /\ \E i \in 1..Len(handled) :
       /\ handled[i].ev = "close"
       /\ handled[i].signal = Some("SIGTERM")
       /\ handled[i].aborted
       /\ handled[i].settles
  /\ Len(thrown) = 1

\* C6: a close reporting any signal s with no cancellation requested is
\* classified as an AgentProcessError that carries the name s.
C6_SignalNameCarried ==
  \A i \in 1..Len(handled) :
    ( /\ handled[i].ev = "close"
      /\ handled[i].signal # None
      /\ ~handled[i].aborted )
    => /\ handled[i].outcome.kind = "reject"
       /\ handled[i].outcome.err[1].name = "AgentProcessError"
       /\ handled[i].outcome.err[1].message.arg = handled[i].signal[1]

\* C7 as claimed: an "error" event is classified user-cancellation exactly
\* when the abort flag is set, and otherwise AgentSpawnError with the cause.
C7_ByAbortFlag ==
  \A i \in 1..Len(handled) :
    handled[i].ev = "error"
    => LET e == handled[i].outcome.err[1]
       IN /\ (e.name = "UserAbortError") <=> handled[i].aborted
          /\ ~handled[i].aborted
               => (e.name = "AgentSpawnError" /\ e.cause = Some(handled[i].name))

\* C7 (amended): an "error" event is classified user-cancellation exactly
\* when the emitted error is an AbortError; every other error is an
\* AgentSpawnError carrying the cause, also when the abort flag is set.
C7_ByErrorName ==
  \A i \in 1..Len(handled) :
    handled[i].ev = "error"
    => LET e == handled[i].outcome.err[1]
       IN /\ handled[i].outcome.kind = "reject"
          /\ (e.name = "UserAbortError") <=> (handled[i].name = "AbortError")
          /\ handled[i].name # "AbortError"
               => (e.name = "AgentSpawnError" /\ e.cause = Some(handled[i].name))

\* a spawn failure handled while the abort flag is set
C7_Witness ==
  \E i \in 1..Len(handled) :
    /\ handled[i].ev = "error"
    /\ handled[i].name = "Error"
    /\ handled[i].aborted
    /\ closePromise.err[1].name = "AgentSpawnError"

\* C8 as claimed: after a close with exit code 0 and no signal, a caller
\* that pulled to the end received exactly the pushed events and completed
\* normally, whatever callbacks came before.
C8_ExitZeroCompletes ==
  \A i \in 1..Len(handled) :
    ( /\ handled[i].ev = "close"
      /\ handled[i].code = Some(0)
      /\ handled[i].signal = None
      /\ RunOver )
    => /\ runState = "done"
       /\ thrown = <<>>
       /\ delivered = Pushes(queue.calls)

\* C8 (amended): after a close with exit code 0 and no signal that no
\* "error" event preceded, no failure is surfaced on any channel, what the
\* caller received is a prefix of the pushed events, and once the caller
\* has pulled to the end it completed normally having received them all.
C8_ExitZeroNoPriorError ==
  \A i \in 1..Len(handled) :
    ( /\ handled[i].ev = "close"
      /\ handled[i].code = Some(0)
      /\ handled[i].signal = None
      /\ handled[i].settles )
    => /\ Surfaced = <<>>
       /\ runState # "threw"
       /\ IsPrefix(delivered, Pushes(queue.calls))
       /\ RunOver => delivered = Pushes(queue.calls)

\* exit 0 with events, one being the flushed trailing fragment, all pulled
C8_Witness ==
  /\ runState = "done"
  /\ handled # <<>>
  /\ handled[1].ev = "close"
  /\ handled[1].code = Some(0)
  /\ buffer # <<>>
  /\ Len(delivered) >= 2

\* C9: whenever a failure has been observed, through a throw from the pull
\* or through the deferred throw, every event pushed before the failure
\* was signalled to the queue has already been yielded to the caller.
C9_EventsBeforeFailure ==
  (thrown # <<>> \/ sideThrown # <<>>)
  => IsPrefix(PushedBefore(queue.calls, {"error"}), delivered)

\* events were still buffered when the failure was queued, then drained
C9_Witness ==
  /\ Len(thrown) = 1
  /\ Len(delivered) >= 2
  /\ \E i \in 1..Len(handled) : handled[i].settles /\ ~handled[i].wasPending

\* C10: at most one failure is surfaced per invocation, counting throws
\* from the pull, deferred throws, and deferred throws still scheduled.
C10_AtMostOneFailure == Len(Surfaced) <= 1

\* both "error" and "close" were handled, each computing a failure
C10_Witness ==
  /\ Len(handled) = 2
  /\ handled[1].outcome.kind = "reject"
  /\ handled[2].outcome.kind = "reject"
  /\ handled[1].outcome # handled[2].outcome
  /\ Len(Surfaced) = 1
  /\ RunOver

\* C11: every flush of the trailing fragment by cleanup() reaches the
\* queue before the queue's terminal signal (error or end), so a caller
\* that has pulled to the end has received the events the flushes parsed.
C11_FlushBeforeTerminal ==
  /\ \A i \in 1..Len(handled) :
       handled[i].flushed => ~handled[i].terminated
  /\ (child = "closed" /\ RunOver /\ \E i \in 1..Len(handled) :
                                        handled[i].flushed)
       => delivered = Pushes(queue.calls)

\* C12: no trailing fragment is pushed by cleanup() twice: two handlers of
\* one invocation never both flush with no stdout data in between.
C12_FragmentFlushedOnce ==
  \A i, j \in 1..Len(handled) :
    (i < j /\ handled[i].flushed /\ handled[j].flushed)
    => handled[i].chunks # handled[j].chunks

\* the events pushed when text arrives as one chunk, before and after the
\* stream closes
OneChunk(text) == stdoutData(NewQueue, <<>>, text)
WholeEvents(text) ==
  Pushes(cleanup(OneChunk(text).queue, OneChunk(text).buffer).calls)

Fed == SubSeq(stream.text, 1, Len(stream.text) - Len(stream.rest))

\* C13: however the bytes of the text are cut into chunks, after every
\* chunk the events pushed so far and the retained fragment are those of
\* feeding the same bytes as one chunk, and after close the events are
\* those of the whole text fed as one chunk.
C13_ChunkingIndependent ==
  /\ ~stream.closed =>
       /\ Pushes(queue.calls) = Pushes(OneChunk(Fed).queue.calls)
       /\ buffer = OneChunk(Fed).buffer
  /\ stream.closed => Pushes(queue.calls) = WholeEvents(stream.text)

RECURSIVE Join(_)
Join(lines) ==
  IF lines = <<>> THEN <<>>
  ELSE IF Len(lines) = 1 THEN lines[1]
  ELSE lines[1] \o <<NL>> \o Join(Tail(lines))

Parses(line) == Trim(line) = <<>> \/ JSONParse(line).ok

\* the characters with every candidate line that fails to parse taken out
WithoutBadLines(str) == Join(SelectSeq(SplitLines(str), Parses))

\* the events of the candidate lines of a string and of its last fragment
LineEvents(str) ==
  LET lines == SplitLines(str)
  IN Pushes(cleanup(PushLines(NewQueue, Front(lines)), Last(lines)).calls)

\* C14: lines that fail to parse produce no event and no error, and the
\* events of the received characters are those of the same characters
\* without those lines: the valid lines before and after give the same
\* events in the same order.
C14_BadLinesDropped ==
  stream.closed =>
    /\ Pushes(queue.calls) = LineEvents(WithoutBadLines(stream.received))
    /\ \A k \in 1..Len(queue.calls) : queue.calls[k].op = "push"
    /\ thrown = <<>>
    /\ sideThrown = <<>>

\* a malformed line between two valid ones
C14_Witness ==
  /\ stream.closed
  /\ stream.text = <<"1", NL, Quote, NL, "1">>
  /\ Pushes(queue.calls) = <<1, 1>>
  /\ WithoutBadLines(stream.received) # stream.received

\* C15: error() and end() are terminal: everything delivered to the
\* consumer was pushed before the first call of error() or end().
C15_NothingAfterTerminal ==
  /\ IsPrefix(delivered, PushedBefore(queue.calls, {"error", "end"}))
  /\ (queue.iter = "woken" /\ ~queue.next.done)
       => IsPrefix(Append(delivered, queue.next.value[1]),
                   PushedBefore(queue.calls, {"error", "end"}))

\* a push made after the terminal call, and a consumer that pulled to the
\* end without receiving it
C15_Witness ==
  /\ queue.iter = "finished"
  /\ Len(queue.calls) >= 3
  /\ queue.calls[1].op = "push"
  /\ queue.calls[2].op \in {"error", "end"}
  /\ queue.calls[3].op = "push"
  /\ delivered = queue.calls[1].arg

\* C16: once a "close" or "error" event has been handled, a caller that
\* keeps pulling reaches normal completion or a thrown failure.
C16_PullingTerminates == (handled # <<>>) ~> RunOver

\* the caller was behind the producer when the handler ran, with items
\* still buffered, and has since pulled to the end
C16_Witness ==
  /\ RunOver
  /\ handled # <<>>
  /\ ~handled[1].wasPending
  /\ Len(delivered) >= 2

\* C17: in query(), when the abort controller is aborted by the time the
\* "close" or "error" event that settles closePromise is handled, a caller
\* that has pulled to the end got exactly one AbortError thrown from its
\* iteration, whatever the exit code or signal and whether or not it was
\* blocked waiting when the handler ran.
C17_QueryAbortThrowsAbortError ==
  \A i \in 1..Len(handled) :
    ( /\ variant = "query"
      /\ handled[i].aborted
      /\ handled[i].settles
      /\ RunOver )
    => /\ Len(thrown) = 1
       /\ thrown[1].name = "AbortError"

\* C18: in query(), with OPENAI_API_KEY unset no child process is ever
\* spawned, and a caller that starts the iteration gets an error thrown.
C18_MissingKeyNoSpawn ==
  (variant = "query" /\ ~processEnv.OPENAI_API_KEY)
  => /\ child = "unspawned"
     /\ runState # "fresh" => (runState = "threw" /\ thrown # <<>>)

\* C19: AsyncQueue with one consumer: a pending-resolution handle exists
\* only while the buffer q is empty, it is the handle of the consumer's
\* one outstanding await, and a handle is never installed while another
\* one exists.
C19_OnePendingOnlyWhenEmpty ==
  /\ [](queue.pending
          => (queue.q = <<>> /\ queue.iter = "awaiting" /\ callerWaiting))
  /\ [][(queue'.iter = "awaiting" /\ queue.iter # "awaiting")
          => (~queue.pending /\ queue'.pending /\ queue.q = <<>>)]_vars

\* the consumer drained two buffered items and then blocked again
C19_Witness ==
  /\ runState = "harness"
  /\ queue.pending
  /\ Len(delivered) >= 2
  /\ queue.calls[1].op = "push"

InHand == IF queue.iter = "woken" /\ ~queue.next.done
          THEN queue.next.value ELSE <<>>

Buffered == [k \in 1..Len(queue.q) |-> queue.q[k].v[1]]

\* C20: a push(v) made while the consumer is blocked resolves the
\* consumer's await with v and leaves the buffer as it was, empty; and as
\* long as only pushes have been made, every pushed value is in exactly one
\* place, in call order: received, then in the woken consumer's hand, then
\* in the buffer.
C20_HandOff ==
  /\ []((\A k \in 1..Len(queue.calls) : queue.calls[k].op = "push")
          => delivered \o InHand \o Buffered = Pushes(queue.calls))
  /\ [][(queue.pending /\ Len(queue'.calls) = Len(queue.calls) + 1
           /\ Last(queue'.calls).op = "push")
          => /\ queue'.q = <<>>
             /\ ~queue'.pending
             /\ queue'.iter = "woken"
             /\ queue'.next = [done |-> FALSE,
                               value |-> Last(queue'.calls).arg]]_vars

\* v = 1 was handed to the blocked consumer, 11 was buffered before the
\* consumer resumed, and the consumer has since received 1 and then 11
C20_Witness ==
  /\ runState = "harness"
  /\ Len(queue.calls) = 3
  /\ \A k \in 1..3 : queue.calls[k].op = "push"
  /\ Pushes(queue.calls) = <<11, 1, 11>>
  /\ delivered = <<11, 1>>
  /\ queue.q = <<Item(11)>>
  /\ queue.iter = "ready"
  /\ queue.next = [done |-> FALSE, value |-> <<1>>]

Terminals(calls) == SelectSeq(calls, LAMBDA c : c.op \in {"error", "end"})

\* C21: once an AsyncQueue has received end() or error(), every later
\* producer call (a push or another terminal call) leaves the buffer q and
\* the pending handle as they were.
C21_ClosedAfterTerminal ==
  [][(Terminals(queue.calls) # <<>> /\ Len(queue'.calls) > Len(queue.calls))
       => (queue'.q = queue.q /\ queue'.pending = queue.pending)]_vars

TerminalOps ==
  [k \in 1..Len(Terminals(queue.calls)) |-> Terminals(queue.calls)[k].op]

\* C22: in run(), whatever "close" and "error" events the child emits and
\* in whatever order, the queue is signalled with nothing while closePromise
\* is pending, with a single end() once it resolved, and with a single
\* error(e) followed by a single end() once it rejected with e; every
\* handled event leaves closePromise settled.
C22_OneTerminalSignal ==
  /\ closePromise.state = "pending"
       => (TerminalOps = <<>> /\ handled = <<>>)
  /\ closePromise.state = "resolved" => TerminalOps = <<"end">>
  /\ closePromise.state = "rejected"
       => /\ TerminalOps = <<"error", "end">>
          /\ Terminals(queue.calls)[1].arg = closePromise.err

\* an "error" event and then a "close" event were both handled
C22_Witness ==
  /\ Len(handled) = 2
  /\ handled[1].ev = "error"
  /\ handled[2].ev = "close"
  /\ TerminalOps = <<"error", "end">>

\* the consumer was blocked on the empty queue when queue.error(err) was
\* invoked by the handler recorded as ev: it was blocked when the handler
\* began and cleanup() pushed nothing to it
BlockedAtError(ev) == ev.wasPending /\ ~ev.flushed

C23_WitnessBlocked ==
  /\ runState = "done"
  /\ handled # <<>>
  /\ BlockedAtError(handled[1])
  /\ closePromise.state = "rejected"
  /\ sideThrown = closePromise.err

\* a "close" report with exactly one of exit code and signal non-null,
\* handled with no cancellation requested
PlainCloseReport(ev) ==
  /\ ev.ev = "close"
  /\ ~ev.aborted
  /\ (ev.code = None) # (ev.signal = None)

\* C24: for every "close" report of the child with exactly one of exit
\* code and signal non-null and no cancellation requested, what run()'s
\* handler settles closePromise with and what query()'s handler settles it
\* with for the same report agree: both resolve if the exit code is 0 and
\* both reject otherwise.
C24_RunQueryAgree ==
  \A i \in 1..Len(handled) :
    PlainCloseReport(handled[i])
    => LET r == closeOutcome(handled[i].code, handled[i].signal, FALSE)
           q == queryCloseOutcome(handled[i].code, FALSE)
       IN /\ handled[i].outcome = r
          /\ r.kind = q.kind
          /\ (r.kind = "resolve") <=> (handled[i].code = Some(0))

\* the child was ended by SIGINT (exit code null) with no abort, and a
\* clean exit is covered by C8_Witness
C24_Witness ==
  /\ handled # <<>>
  /\ PlainCloseReport(handled[1])
  /\ handled[1].signal = Some("SIGINT")
  /\ handled[1].outcome.kind = "reject"
  /\ queryCloseOutcome(handled[1].code, FALSE).kind = "reject"

\* C25: in run(), the step by which the consumer stops mid-iteration
\* leaves the abort flag, the process, its exit report, closePromise and
\* the framer's buffer unchanged; afterwards the child's "close" handler
\* can still run whenever the child has exited or failed, and once the
\* child has closed a handler has run, closePromise is settled and the
\* queue has been signalled, end() last.
C25_AbandonLeavesChild ==
  /\ [][(runState' = "abandoned" /\ runState # "abandoned")
          => UNCHANGED <<aborted, child, exitInfo, killed, closePromise,
                         buffer, handled>>]_vars
  /\ []((runState = "abandoned" /\ child \in {"exited", "failed"})
          => ENABLED Close)
  /\ []((runState = "abandoned" /\ child = "closed")
          => /\ handled # <<>>
             /\ closePromise.state # "pending"
             /\ Last(TerminalOps) = "end")

\* the consumer stopped after one event while the child was alive with a
\* fragment in the buffer; the child then exited and its "close" handler
\* flushed the fragment and ended the queue
C25_Witness ==
  /\ runState = "abandoned"
  /\ child = "closed"
  /\ ~aborted
  /\ Len(handled) = 1
  /\ handled[1].flushed
  /\ Len(delivered) = 1
  /\ Len(Pushes(queue.calls)) = 2
  /\ TerminalOps = <<"end">>

====
